---- MODULE Spec2Model ----
(***************************************************************************)
(* A state-machine model of the NoRielSity rental-listing application:     *)
(*   - the chat thread manager   (listings/views.py: send_message,         *)
(*     chat_detail, chat_messages_api): SpecChat handles one request at a  *)
(*     time; in SpecSendRace and SpecRace the requests of NumProcs workers *)
(*     interleave statement by statement over the shared database;         *)
(*   - the login rate limiter    (listings/views.py: login_view and its    *)
(*     cache helpers): in SpecThrottle and SpecLogin login POSTs are       *)
(*     handled one at a time and time passes between them;                 *)
(*   - the report moderation workflow (listings/views.py: report_listing,  *)
(*     listings/admin.py: ListingReportAdmin): SpecAdmin, SpecModeration;  *)
(*   - the owner's cabinet (dashboard_create, dashboard_update) with       *)
(*     ListingForm: SpecListing; the notification feed: SpecNotify;        *)
(*     favorites: SpecFavorite, SpecFavoriteRace.                          *)
(* SpecTimedChat, SpecTimedRace and SpecParties are the chat with the      *)
(* clock advancing and with listings changing owner.                       *)
(* Text values (user names, message texts, moderation reasons) are         *)
(* sequences of one-character strings, so that strip() and lower() are     *)
(* computed and not assumed.                                               *)
(***************************************************************************)
EXTENDS Integers, Sequences, FiniteSets, TLC

VARIABLES
    listings,       \* Listing rows: id -> [owner, status]
    threads,        \* ChatThread rows, id = index: [listing, landlord, tenant, updated_at]
    chatMessages,   \* ChatMessage rows, id = index: [thread, sender, recipient, created_at, is_read]
    req,            \* per worker: the request it is handling and its position in the view
    out,            \* the response that the last step sent, if it sent one
    now,            \* the wall clock read by timezone.now() / Now()
    cache,          \* django.core.cache: key -> [val, ttl], ttl = seconds left
    passAges,       \* history: per IP, the ages of the login POSTs that got past the per-IP check
    passRun,        \* history: per IP, the POSTs in a row that got past it, each less than a window after the one before, and the age of the last
    streak,         \* history: per (IP, username), the failed checks in a row and the age of the last
    tenth,          \* history: per (IP, username), the time since its streak last reached the limit
    reports,        \* ListingReport rows, id = index
    notifications,  \* Notification rows, id = index
    favorites       \* Favorite rows, id = index: [user, listing, deleted]

loginVars == <<cache, passAges, passRun, streak, tenth>>

adminVars == <<reports, notifications>>

vars == <<listings, threads, chatMessages, req, out, now, loginVars, adminVars,
          favorites>>

----------------------------------------------------------------------------
(* Bounds of the model *)

NumProcs == 2
MaxMsgs == 2
MaxClock == 1
MaxReports == 1
MaxNotifs == 4
MaxListings == 3
MaxFavs == 3
MaxThreads == 2

Procs == 1..NumProcs

----------------------------------------------------------------------------
(* Text: str.strip() and str.lower() on sequences of characters *)

Whitespace == {" "}

RECURSIVE LStrip(_)
LStrip(s) ==
    IF s # <<>> /\ Head(s) \in Whitespace THEN LStrip(Tail(s)) ELSE s

RECURSIVE RStrip(_)
RStrip(s) ==
    IF s # <<>> /\ s[Len(s)] \in Whitespace
    THEN RStrip(SubSeq(s, 1, Len(s) - 1))
    ELSE s

KeepText(s) == s

\* str.strip()
Strip(s) == RStrip(LStrip(s))

----------------------------------------------------------------------------
(* Users and the listings present in the database *)

NoUser == "none"
Users == {"u1", "u2", "u3"}

STATUS_PUBLISHED == "published"
STATUS_BLOCKED == "blocked"

InitListings ==
    (1 :> [owner |-> "u1", status |-> STATUS_PUBLISHED]) @@
    (2 :> [owner |-> NoUser, status |-> STATUS_PUBLISHED])

ListingIds == DOMAIN InitListings

\* request.POST["message_text"]: raw texts a client submits
MessageTexts == { <<>>, <<" ">>, <<" ", "h", "i", " ">> }

\* request.GET["after_id"]
AfterIds == 0..MaxMsgs

----------------------------------------------------------------------------
(* Chat: the database tables and their queries *)

ThreadIds == 1..Len(threads)
MsgIds == 1..Len(chatMessages)

\* ChatThread.objects.filter(listing=, landlord=, tenant=)
ThreadsFor(l, ld, tn) ==
    { t \in ThreadIds : /\ threads[t].listing = l
                        /\ threads[t].landlord = ld
                        /\ threads[t].tenant = tn }

MessagesFrom(t, a) ==
    { m \in MsgIds : chatMessages[m].thread = t /\ m >= a }

\* thread.messages.filter(id__gt=after_id)
MessagesAfter(t, a) ==
    { m \in MsgIds : chatMessages[m].thread = t /\ m > a }

UnreadInThread(t, u, a) ==
    { m \in MsgIds : /\ chatMessages[m].thread = t
                     /\ ~chatMessages[m].is_read
                     /\ m > a }

\* The rows an UPDATE ... SET is_read = TRUE changes: ChatMessage.objects
\* .filter(thread=, recipient=, is_read=False, id__gt=)
UnreadFor(t, u, a) ==
    { m \in MsgIds : /\ chatMessages[m].thread = t
                     /\ chatMessages[m].recipient = u
                     /\ ~chatMessages[m].is_read
                     /\ m > a }

MarkRead(S) ==
    [m \in MsgIds |-> IF m \in S THEN [chatMessages[m] EXCEPT !.is_read = TRUE]
                                 ELSE chatMessages[m]]

\* ChatMessage.Meta.ordering = ["created_at"]: the rows of S by creation
\* time, rows of one time in the order of their insertion
Earliest(S) ==
    CHOOSE m \in S : \A n \in S :
        \/ chatMessages[m].created_at < chatMessages[n].created_at
        \/ chatMessages[m].created_at = chatMessages[n].created_at /\ m <= n

RECURSIVE Ordered(_)
Ordered(S) ==
    IF S = {} THEN <<>> ELSE <<Earliest(S)>> \o Ordered(S \ {Earliest(S)})

NoUniqueTogether(l, ld, tn) == FALSE

\* ChatThread.Meta.unique_together: the INSERT of a second row for the
\* triple is refused by the database (IntegrityError)
UniqueViolation(l, ld, tn) == ThreadsFor(l, ld, tn) # {}

IdleReq ==
    [op |-> "idle", pc |-> "idle", user |-> NoUser, listing |-> 0, thread |-> 0,
     recipient |-> NoUser, after |-> 0, goc |-> "", ts |-> 0, msg |-> 0,
     result |-> <<>>, marked |-> {}, xhr |-> FALSE, code |-> 0, body |-> "",
     method |-> "", text |-> <<>>, fav |-> 0, was |-> FALSE, prev |-> <<>>]

\* A worker takes a new request when it is idle
Free(p) == req[p].pc = "idle"

\* The request is answered: the worker is idle again, and `out` shows what the
\* request was (op, user, listing, thread, after), what it did (goc, msg,
\* result, marked) and the response
Finish(p, r, xhr, code, body) ==
    /\ req' = [req EXCEPT ![p] = IdleReq]
    /\ out' = [r EXCEPT !.pc = "done", !.xhr = xhr, !.code = code, !.body = body]

\* A step inside a view: the worker moves on, nothing is sent
Continue(p, r) ==
    /\ req' = [req EXCEPT ![p] = r]
    /\ out' = IdleReq

\* {"ok": False, "error": err} with the status for XMLHttpRequest, a redirect
\* otherwise.  The X-Requested-With header is an input that each path of a view
\* reads once, when it builds its response: it is drawn there.
JsonOrRedirect(p, r, code, err) ==
    \E xhr \in BOOLEAN :
        IF xhr THEN Finish(p, r, TRUE, code, err)
               ELSE Finish(p, r, FALSE, 302, "redirect")

\* The model holds at most MaxMsgs messages: a text that will be inserted is
\* accepted only while there is room for it beside the inserts in flight
Inserting == { p \in Procs : req[p].pc = "msg_insert" }

Room(text) ==
    Strip(text) # <<>> => Len(chatMessages) + Cardinality(Inserting) < MaxMsgs

\* `if text:` of send_message (views.py 417-435), reached with the thread in
\* hand: an empty text is answered at once; otherwise ChatMessage(...).save()
\* stamps created_at (auto_now_add) and then sends the INSERT
WithThread(p, r, t, goc) ==
    \E text \in MessageTexts :
        /\ Room(text)
        /\ IF Strip(text) = <<>>
           THEN JsonOrRedirect(p, [r EXCEPT !.thread = t, !.goc = goc,
                                            !.text = text],
                               400, "empty_message")
           ELSE Continue(p, [r EXCEPT !.pc = "msg_insert", !.thread = t,
                                      !.goc = goc, !.ts = now, !.text = text])

----------------------------------------------------------------------------
(* send_message *)

\* The model holds at most MaxThreads threads: a send that will insert one
\* is accepted only while its (listing, landlord, tenant) fits beside those
\* of the table and of the inserts in flight
ThreadRoom(l, owner, u) ==
    Cardinality({ <<threads[t].listing, threads[t].landlord, threads[t].tenant>> :
                    t \in ThreadIds }
                \cup { <<req[p].listing, req[p].recipient, req[p].user>> :
                    p \in { q \in Procs : req[q].pc \in {"goc_create", "goc_reget"} } }
                \cup { <<l, owner, u>> }) <= MaxThreads

SelfMessageOnly(owner, u) == owner = u

\* `if not listing.owner_id or listing.owner_id == request.user.id`
NoOneToWrite(owner, u) == owner = NoUser \/ owner = u

\* views.py 399-415: the owner check, then the first SELECT of get_or_create
\* (get() raises MultipleObjectsReturned when several rows match)
SendStart(p) ==
    /\ Free(p)
    /\ \E u \in Users, l \in ListingIds :
        LET owner == listings[l].owner
            r == [IdleReq EXCEPT !.op = "send_message", !.user = u,
                                 !.listing = l, !.recipient = owner,
                                 !.method = "POST"]
            found == ThreadsFor(l, owner, u)
        IN  IF NoOneToWrite(owner, u)
            THEN JsonOrRedirect(p, r, 403, "forbidden")
            ELSE IF found = {}
            THEN /\ ThreadRoom(l, owner, u)
                 /\ Continue(p, [r EXCEPT !.pc = "goc_create"])
            ELSE IF Cardinality(found) > 1
            THEN Finish(p, r, FALSE, 500, "MultipleObjectsReturned")
            ELSE \E t \in found : WithThread(p, r, t, "got")
    /\ UNCHANGED <<listings, threads, chatMessages, now>>
    /\ UNCHANGED <<loginVars, adminVars, favorites>>

\* get_or_create, DoesNotExist branch: INSERT the thread; the unique
\* constraint turns a lost race into IntegrityError
SendCreate(p) ==
    LET r == req[p] IN
    /\ r.op = "send_message" /\ r.pc = "goc_create"
    /\ IF UniqueViolation(r.listing, r.recipient, r.user)
       THEN /\ Continue(p, [r EXCEPT !.pc = "goc_reget"])
            /\ UNCHANGED threads
       ELSE /\ threads' = Append(threads,
                    [listing |-> r.listing, landlord |-> r.recipient,
                     tenant |-> r.user, updated_at |-> now])
            /\ WithThread(p, r, Len(threads) + 1, "created")
    /\ UNCHANGED <<listings, chatMessages, now>>
    /\ UNCHANGED <<loginVars, adminVars, favorites>>

\* get_or_create, IntegrityError branch: SELECT again, re-raise when the row
\* is still not there
SendReget(p) ==
    LET r == req[p]
        found == ThreadsFor(r.listing, r.recipient, r.user)
    IN
    /\ r.op = "send_message" /\ r.pc = "goc_reget"
    /\ IF found = {}
       THEN Finish(p, r, FALSE, 500, "IntegrityError")
       ELSE IF Cardinality(found) > 1
       THEN Finish(p, r, FALSE, 500, "MultipleObjectsReturned")
       ELSE \E t \in found : WithThread(p, r, t, "regot")
    /\ UNCHANGED <<listings, threads, chatMessages, now>>
    /\ UNCHANGED <<loginVars, adminVars, favorites>>

\* ChatMessage.objects.create (views.py 418-423, 535-540): the INSERT assigns
\* the next id
InsertMessage(p) ==
    LET r == req[p] IN
    /\ r.pc = "msg_insert"
    /\ chatMessages' = Append(chatMessages,
            [thread |-> r.thread, sender |-> r.user, recipient |-> r.recipient,
             created_at |-> r.ts, is_read |-> FALSE])
    /\ Continue(p, [r EXCEPT !.pc = "bump", !.msg = Len(chatMessages) + 1])
    /\ UNCHANGED <<listings, threads, now>>
    /\ UNCHANGED <<loginVars, adminVars, favorites>>

\* ChatThread.objects.filter(pk=thread.pk).update(updated_at=Now()), then the
\* response (views.py 424-445, 541-546)
BumpThread(p) ==
    LET r == req[p] IN
    /\ r.pc = "bump"
    /\ threads' = [threads EXCEPT ![r.thread].updated_at = now]
    /\ \E xhr \in BOOLEAN :
        IF xhr THEN Finish(p, r, TRUE, 200, "ok")
               ELSE Finish(p, r, FALSE, 302, "redirect")
    /\ UNCHANGED <<listings, chatMessages, now>>
    /\ UNCHANGED <<loginVars, adminVars, favorites>>

----------------------------------------------------------------------------
(* chat_detail *)

AnyLoggedIn(u, t) == u \in Users

\* `request.user.id not in (thread.landlord_id, thread.tenant_id)`, negated
Participant(u, t) == u \in {threads[t].landlord, threads[t].tenant}

SameParty(u, t) == u

\* `thread.tenant if request.user.id == thread.landlord_id else thread.landlord`
OtherParty(u, t) ==
    IF u = threads[t].landlord THEN threads[t].tenant ELSE threads[t].landlord

\* views.py 519-548: the thread lookup, the access check and, for a POST, the
\* text; an empty text answers 400 to XMLHttpRequest and otherwise falls
\* through to the page
ChatStart(p) ==
    /\ Free(p)
    /\ \E u \in Users, t \in ThreadIds, method \in {"GET", "POST"} :
        LET r == [IdleReq EXCEPT !.op = "chat_detail", !.user = u, !.thread = t,
                                 !.listing = threads[t].listing,
                                 !.method = method]
        IN  IF ~Participant(u, t)
            THEN JsonOrRedirect(p, r, 403, "forbidden")
            ELSE IF method = "GET"
            THEN Continue(p, [r EXCEPT !.pc = "mark_read"])
            ELSE \E text \in MessageTexts :
                   /\ Room(text)
                   /\ IF Strip(text) # <<>>
                      THEN Continue(p, [r EXCEPT !.pc = "msg_insert", !.ts = now,
                                                 !.recipient = OtherParty(u, t),
                                                 !.text = text])
                      ELSE \E xhr \in BOOLEAN :
                             IF xhr
                             THEN Finish(p, [r EXCEPT !.text = text],
                                         TRUE, 400, "empty_message")
                             ELSE Continue(p, [r EXCEPT !.pc = "mark_read",
                                                        !.text = text])
    /\ UNCHANGED <<listings, threads, chatMessages, now>>
    /\ UNCHANGED <<loginVars, adminVars, favorites>>

\* views.py 550-552: everything addressed to the viewer becomes read
ChatMarkRead(p) ==
    LET r == req[p]
        S == UnreadFor(r.thread, r.user, 0)
    IN
    /\ r.op = "chat_detail" /\ r.pc = "mark_read"
    /\ chatMessages' = MarkRead(S)
    /\ Continue(p, [r EXCEPT !.pc = "render"])
    /\ UNCHANGED <<listings, threads, now>>
    /\ UNCHANGED <<loginVars, adminVars, favorites>>

\* views.py 553-563: the template iterates thread.messages
ChatRender(p) ==
    LET r == req[p] IN
    /\ r.op = "chat_detail" /\ r.pc = "render"
    /\ Finish(p, [r EXCEPT !.result = Ordered(MessagesAfter(r.thread, 0))],
              FALSE, 200, "page")
    /\ UNCHANGED <<listings, threads, chatMessages, now>>
    /\ UNCHANGED <<loginVars, adminVars, favorites>>

----------------------------------------------------------------------------
(* chat_messages_api *)

\* views.py 567-574: the access check, then the SELECT of the messages after
\* after_id, serialized at once
PollStart(p) ==
    /\ Free(p)
    /\ \E u \in Users, t \in ThreadIds, a \in AfterIds :
        LET r == [IdleReq EXCEPT !.op = "chat_messages_api", !.user = u,
                                 !.thread = t, !.listing = threads[t].listing,
                                 !.after = a, !.method = "GET"]
        IN  IF ~Participant(u, t)
            THEN Finish(p, r, TRUE, 403, "forbidden")
            ELSE Continue(p, [r EXCEPT !.pc = "mark",
                                       !.result = Ordered(MessagesAfter(t, a))])
    /\ UNCHANGED <<listings, threads, chatMessages, now>>
    /\ UNCHANGED <<loginVars, adminVars, favorites>>

\* views.py 576-580: the UPDATE that marks as read, then the response
PollMark(p) ==
    LET r == req[p]
        S == UnreadFor(r.thread, r.user, r.after)
    IN
    /\ r.op = "chat_messages_api" /\ r.pc = "mark"
    /\ chatMessages' = MarkRead(S)
    /\ Finish(p, [r EXCEPT !.marked = S], TRUE, 200, "ok")
    /\ UNCHANGED <<listings, threads, now>>
    /\ UNCHANGED <<loginVars, adminVars, favorites>>

\* Time passes
Tick ==
    /\ now < MaxClock
    /\ now' = now + 1
    /\ out' = IdleReq
    /\ UNCHANGED <<listings, threads, chatMessages, req>>
    /\ UNCHANGED <<loginVars, adminVars, favorites>>

----------------------------------------------------------------------------
(* The login rate limiter *)

LOGIN_WINDOW_SECONDS == 60
LOGIN_MAX_ATTEMPTS_PER_IP == 5
LOGIN_LOCK_SECONDS == 15 * 60
LOGIN_MAX_FAILURES_BEFORE_LOCK == 10

\* str.lower()
LowerChar(c) ==
    CASE c = "A" -> "a"
      [] c = "B" -> "b"
      [] OTHER -> c

Lower(s) == [i \in 1..Len(s) |-> LowerChar(s[i])]

\* The accounts of the user table: User.username
Accounts == { <<"A", "b">> }

\* request.POST["username"] as typed, and whether the password is the one of
\* the account of that name
UserNames ==
    { <<>>, <<" ">>, <<"A", "b">>, <<" ", "A", "b", " ">>, <<"a", "b">>, <<"c">> }

IPs == { "10.0.0.1" }

\* LoginForm.is_valid(): the username field is stripped, the account is
\* looked up by its exact name and the password checked
FormValid(raw, pwok) == Strip(raw) \in Accounts /\ pwok

_lock_key(ip, username) == <<"auth:lock", ip, Strip(Lower(username))>>

_window_key(ip) == <<"auth:window", ip>>

_fail_key(ip, username) == <<"auth:fail", ip, Strip(Lower(username))>>

\* cache.get(key, default): an entry is there until its timeout has passed
CacheGet(c, key, default) ==
    IF key \in DOMAIN c THEN c[key].val ELSE default

\* cache.set(key, value, timeout)
CacheSet(c, key, value, timeout) ==
    [k \in DOMAIN c \cup {key} |->
        IF k = key THEN [val |-> value, ttl |-> timeout] ELSE c[k]]

\* cache.delete(key)
CacheDelete(c, key) == [k \in DOMAIN c \ {key} |-> c[k]]

\* The cache after d seconds: entries whose timeout has passed are gone
CacheAfter(c, d) ==
    [k \in { x \in DOMAIN c : c[x].ttl > d } |-> [c[k] EXCEPT !.ttl = @ - d]]

RateLimitedAbove(c, ip) ==
    CacheGet(c, _window_key(ip), 0) > LOGIN_MAX_ATTEMPTS_PER_IP

\* _is_rate_limited returns TRUE and leaves the cache, or counts the attempt
\* and returns FALSE
RateLimited(c, ip) ==
    CacheGet(c, _window_key(ip), 0) >= LOGIN_MAX_ATTEMPTS_PER_IP

CountNothing(c, ip) == c

CountAttempt(c, ip) ==
    CacheSet(c, _window_key(ip), CacheGet(c, _window_key(ip), 0) + 1,
             LOGIN_WINDOW_SECONDS)

_is_locked(c, ip, username) == CacheGet(c, _lock_key(ip, username), 0) # 0

RegisterFailureLockAbove(c, ip, username) ==
    LET failures == CacheGet(c, _fail_key(ip, username), 0) + 1
        c1 == CacheSet(c, _fail_key(ip, username), failures, LOGIN_LOCK_SECONDS)
    IN  IF failures > LOGIN_MAX_FAILURES_BEFORE_LOCK
        THEN CacheSet(c1, _lock_key(ip, username), 1, LOGIN_LOCK_SECONDS)
        ELSE c1

_register_login_failure(c, ip, username) ==
    LET failures == CacheGet(c, _fail_key(ip, username), 0) + 1
        c1 == CacheSet(c, _fail_key(ip, username), failures, LOGIN_LOCK_SECONDS)
    IN  IF failures >= LOGIN_MAX_FAILURES_BEFORE_LOCK
        THEN CacheSet(c1, _lock_key(ip, username), 1, LOGIN_LOCK_SECONDS)
        ELSE c1

ClearEveryKey(c, ip, username) ==
    CacheDelete(CacheDelete(CacheDelete(c, _fail_key(ip, username)),
                            _lock_key(ip, username)), _window_key(ip))

ClearLockOnly(c, ip, username) == CacheDelete(c, _lock_key(ip, username))

_clear_login_protection(c, ip, username) ==
    CacheDelete(CacheDelete(c, _fail_key(ip, username)), _lock_key(ip, username))

LoginOutcomeCountingLocked(c, ip, raw, pwok) ==
    LET username == Strip(raw)
        c1 == CountAttempt(c, ip)
    IN  IF RateLimited(c, ip)
        THEN <<c, 429, "ip", NoUser>>
        ELSE IF username # <<>> /\ _is_locked(c1, ip, username)
        THEN <<_register_login_failure(c1, ip, username), 429, "locked", NoUser>>
        ELSE IF FormValid(raw, pwok)
        THEN <<_clear_login_protection(c1, ip, Strip(raw)), 302, "ok", Strip(raw)>>
        ELSE IF username # <<>>
        THEN <<_register_login_failure(c1, ip, username), 400, "invalid", NoUser>>
        ELSE <<c1, 400, "invalid", NoUser>>

\* What login_view does to the cache and what it answers: <<cache, code,
\* reason, user logged in>>
LoginOutcome(c, ip, raw, pwok) ==
    LET username == Strip(raw)
        c1 == CountAttempt(c, ip)
    IN  IF RateLimited(c, ip)
        THEN <<c, 429, "ip", NoUser>>
        ELSE IF username # <<>> /\ _is_locked(c1, ip, username)
        THEN <<c1, 429, "locked", NoUser>>
        ELSE IF FormValid(raw, pwok)
        THEN <<_clear_login_protection(c1, ip, Strip(raw)), 302, "ok", Strip(raw)>>
        ELSE IF username # <<>>
        THEN <<_register_login_failure(c1, ip, username), 400, "invalid", NoUser>>
        ELSE <<c1, 400, "invalid", NoUser>>

\* The (IP, username) pair a POST is for: the username trimmed and lower-cased
PairOf(ip, raw) == <<ip, Strip(Lower(raw))>>

Saturate(n, max) == IF n > max THEN max ELSE n

Lookup(f, k, default) == IF k \in DOMAIN f THEN f[k] ELSE default

\* History of a POST.  passed: it got past the per-IP check; failed: its
\* credentials were checked and refused; ok: it logged a user in.
PassAgesAfter(ip, passed) ==
    IF passed
    THEN [i \in DOMAIN passAges \cup {ip} |->
            IF i = ip THEN <<0>> \o Lookup(passAges, ip, <<>>) ELSE passAges[i]]
    ELSE passAges

PassRunAfter(ip, passed) ==
    IF passed
    THEN [i \in DOMAIN passRun \cup {ip} |->
            IF i = ip
            THEN [n |-> Saturate(Lookup(passRun, ip, [n |-> 0]).n + 1,
                                 LOGIN_MAX_ATTEMPTS_PER_IP),
                  age |-> 0]
            ELSE passRun[i]]
    ELSE passRun

StreakAfter(k, failed, ok) ==
    IF ok THEN [x \in DOMAIN streak \ {k} |-> streak[x]]
    ELSE IF failed
    THEN [x \in DOMAIN streak \cup {k} |->
            IF x = k
            THEN [n |-> Saturate(Lookup(streak, k, [n |-> 0]).n + 1,
                                 LOGIN_MAX_FAILURES_BEFORE_LOCK),
                  age |-> 0]
            ELSE streak[x]]
    ELSE streak

TenthAfter(k, failed, ok) ==
    IF failed /\ StreakAfter(k, failed, ok)[k].n >= LOGIN_MAX_FAILURES_BEFORE_LOCK
    THEN [x \in DOMAIN tenth \cup {k} |-> IF x = k THEN 0 ELSE tenth[x]]
    ELSE IF failed
    THEN [x \in DOMAIN tenth \ {k} |-> tenth[x]]
    ELSE tenth

\* login_view, a POST (views.py 236-282)
LoginPost(names) ==
    \E ip \in IPs, raw \in names, pwok \in BOOLEAN :
        LET o == LoginOutcome(cache, ip, raw, pwok)
            k == PairOf(ip, raw)
            passed == o[3] # "ip"
            failed == o[2] = 400 /\ Strip(raw) # <<>>
            ok == o[2] = 302
        IN  /\ cache' = o[1]
            /\ out' = [op |-> "login", pc |-> "done", ip |-> ip, raw |-> raw,
                       pair |-> k, valid |-> FormValid(raw, pwok),
                       before |-> Lookup(streak, k, [n |-> 0]).n,
                       code |-> o[2], body |-> o[3], user |-> o[4]]
            /\ passAges' = PassAgesAfter(ip, passed)
            /\ passRun' = PassRunAfter(ip, passed)
            /\ streak' = StreakAfter(k, failed, ok)
            /\ tenth' = TenthAfter(k, failed, ok)
            /\ UNCHANGED <<listings, threads, chatMessages, req, now, adminVars, favorites>>

\* d seconds pass between two requests
Advance(d) ==
    /\ cache' = CacheAfter(cache, d)
    /\ passAges' = [i \in DOMAIN passAges |->
                      SelectSeq([j \in DOMAIN passAges[i] |-> passAges[i][j] + d],
                                LAMBDA a : a < LOGIN_WINDOW_SECONDS)]
    /\ passRun' = [i \in { x \in DOMAIN passRun :
                                passRun[x].age + d < LOGIN_WINDOW_SECONDS } |->
                     [passRun[i] EXCEPT !.age = @ + d]]
    /\ streak' = [k \in { x \in DOMAIN streak : streak[x].age + d < LOGIN_LOCK_SECONDS } |->
                    [streak[k] EXCEPT !.age = @ + d]]
    /\ tenth' = [k \in DOMAIN tenth |-> Saturate(tenth[k] + d, LOGIN_LOCK_SECONDS)]
    /\ out' = IdleReq
    /\ UNCHANGED <<listings, threads, chatMessages, req, now, adminVars, favorites>>

----------------------------------------------------------------------------
(* Reports on listings and their moderation in the admin site *)

MODERATION_PENDING == "pending"
MODERATION_IN_REVIEW == "in_review"
MODERATION_APPROVED == "approved"
MODERATION_REJECTED == "rejected"

MODERATION_STATUS_CHOICES ==
    {MODERATION_PENDING, MODERATION_IN_REVIEW, MODERATION_APPROVED, MODERATION_REJECTED}

\* previous_status = None, reviewed_at = None
NoStatus == "none"
NoTime == -1

\* Staff users
Moderators == {"m1", "m2"}

\* What a moderator may type into moderation_reason
ReasonTexts == { <<>>, <<" ">>, <<" ", "h", "i", " ">> }

\* The titles of the four notifications save_model creates
TITLE_IN_REVIEW == "report in review"
TITLE_REJECTED == "report rejected"
TITLE_APPROVED == "report approved"
TITLE_BLOCKED == "listing blocked"

\* Notification.objects.create(recipient, related_report, ...); reason is the
\* text put after "Причина: " in the message, <<>> when the message has none
Notify(u, pk, title, reason) ==
    [recipient |-> u, related_report |-> pk, title |-> title, reason |-> reason,
     is_active |-> TRUE, created_at |-> now]

\* report_listing: a logged-in user who is not the owner of the listing
\* files a report; it starts pending, with no moderator decision
report_listing(u, l) ==
    /\ Len(reports) < MaxReports
    /\ listings[l].owner # u
    /\ reports' = Append(reports,
            [listing |-> l, reporter |-> u,
             moderation_status |-> MODERATION_PENDING, moderation_reason |-> <<>>,
             reviewed_at |-> NoTime, reviewed_by |-> NoUser])
    /\ out' = [op |-> "report", pc |-> "done", user |-> u, listing |-> l,
               code |-> 302, body |-> "redirect"]
    /\ UNCHANGED <<listings, threads, chatMessages, req, now, notifications>>
    /\ UNCHANGED <<loginVars, favorites>>

\* ListingReportAdminForm.clean: rejecting needs a reason that is not blank
FormRefuses(status, raw) == status = MODERATION_REJECTED /\ Strip(raw) = <<>>

ReviewedAlways(obj) == TRUE

\* save_model stamps the reviewer and the review time on every status but
\* pending
Reviewed(obj) == obj.moderation_status # MODERATION_PENDING

Stamp(user, obj) ==
    IF Reviewed(obj)
    THEN [obj EXCEPT !.reviewed_at = now, !.reviewed_by = user]
    ELSE [obj EXCEPT !.reviewed_at = NoTime, !.reviewed_by = NoUser]

AlwaysChanged(previous_status, obj) == TRUE

\* save_model returns after saving when the status is the one it read
StatusChanged(previous_status, obj) == previous_status # obj.moderation_status

RejectedWithRawReason(pk, obj, raw) ==
    <<Notify(obj.reporter, pk, TITLE_REJECTED, raw)>>

\* The notification of a rejection carries the reason, stripped
RejectedNotifications(pk, obj, raw) ==
    <<Notify(obj.reporter, pk, TITLE_REJECTED, Strip(obj.moderation_reason))>>

ApprovedReporterOnly(pk, obj) ==
    <<Notify(obj.reporter, pk, TITLE_APPROVED, <<>>)>>

\* The notifications of an approval: the reporter's, then the owner's when
\* the listing has an owner
ApprovedNotifications(pk, obj) ==
    <<Notify(obj.reporter, pk, TITLE_APPROVED, <<>>)>> \o
    (IF listings[obj.listing].owner # NoUser
     THEN <<Notify(listings[obj.listing].owner, pk, TITLE_BLOCKED,
                   Strip(obj.moderation_reason))>>
     ELSE <<>>)

\* The notifications save_model creates for the saved report
Created(pk, obj, previous_status, raw) ==
    IF ~StatusChanged(previous_status, obj) THEN <<>>
    ELSE IF obj.moderation_status = MODERATION_IN_REVIEW
    THEN <<Notify(obj.reporter, pk, TITLE_IN_REVIEW, <<>>)>>
    ELSE IF obj.moderation_status = MODERATION_REJECTED
    THEN RejectedNotifications(pk, obj, raw)
    ELSE IF obj.moderation_status = MODERATION_APPROVED
    THEN ApprovedNotifications(pk, obj)
    ELSE <<>>

ListingsFollowReport(obj, previous_status) ==
    IF ~StatusChanged(previous_status, obj) THEN listings
    ELSE IF obj.moderation_status = MODERATION_APPROVED
    THEN [listings EXCEPT ![obj.listing].status = STATUS_BLOCKED]
    ELSE IF previous_status = MODERATION_APPROVED
    THEN [listings EXCEPT ![obj.listing].status = STATUS_PUBLISHED]
    ELSE listings

\* An approval that is a change of status blocks the listing
ListingsAfter(obj, previous_status) ==
    IF /\ StatusChanged(previous_status, obj)
       /\ obj.moderation_status = MODERATION_APPROVED
       /\ listings[obj.listing].status # STATUS_BLOCKED
    THEN [listings EXCEPT ![obj.listing].status = STATUS_BLOCKED]
    ELSE listings

\* ListingReportAdmin.save_model, after the form was found valid: pk is the
\* row saved, obj the instance with the form's values
save_model(user, pk, obj, previous_status, raw) ==
    LET made == Created(pk, Stamp(user, obj), previous_status, raw)
    IN  /\ Len(notifications) + Len(made) <= MaxNotifs
        /\ reports' = [x \in 1..(IF pk > Len(reports) THEN pk ELSE Len(reports)) |->
                          IF x = pk THEN Stamp(user, obj) ELSE reports[x]]
        /\ notifications' = notifications \o made
        /\ listings' = ListingsAfter(Stamp(user, obj), previous_status)
        /\ out' = [op |-> "admin_save", pc |-> "done", user |-> user, report |-> pk,
                   status |-> obj.moderation_status, raw |-> raw,
                   previous |-> previous_status, created |-> Len(made),
                   code |-> 302, body |-> "saved"]

\* The form is shown again with its error; nothing is saved
FormInvalid(user, pk, status, raw, previous_status) ==
    /\ out' = [op |-> "admin_save", pc |-> "done", user |-> user, report |-> pk,
               status |-> status, raw |-> raw,
               previous |-> previous_status, created |-> 0,
               code |-> 200, body |-> "invalid"]
    /\ UNCHANGED <<listings, reports, notifications>>

\* A moderator changes report pk in the admin site: the status and the
\* reason are the form's; the form field strips the reason
AdminChange(user, pk, status, raw) ==
    /\ pk \in DOMAIN reports
    /\ IF FormRefuses(status, raw)
       THEN FormInvalid(user, pk, status, raw, reports[pk].moderation_status)
       ELSE save_model(user, pk,
                [reports[pk] EXCEPT !.moderation_status = status,
                                    !.moderation_reason = Strip(raw)],
                reports[pk].moderation_status, raw)
    /\ UNCHANGED <<threads, chatMessages, req, now>>
    /\ UNCHANGED <<loginVars, favorites>>

\* A moderator adds a report in the admin site (change = False)
AdminAdd(user, l, u, status, raw) ==
    /\ Len(reports) < MaxReports
    /\ IF FormRefuses(status, raw)
       THEN FormInvalid(user, 0, status, raw, NoStatus)
       ELSE save_model(user, Len(reports) + 1,
                [listing |-> l, reporter |-> u,
                 moderation_status |-> status, moderation_reason |-> Strip(raw),
                 reviewed_at |-> NoTime, reviewed_by |-> NoUser],
                NoStatus, raw)
    /\ UNCHANGED <<threads, chatMessages, req, now>>
    /\ UNCHANGED <<loginVars, favorites>>

\* Staff give a listing to another owner in the admin site (ListingAdmin
\* edits every field of the listing)
ListingAdminOwner(l, owner) ==
    /\ l \in DOMAIN listings
    /\ listings' = [listings EXCEPT ![l].owner = owner]
    /\ out' = [op |-> "listing_admin_save", pc |-> "done", user |-> NoUser,
               listing |-> l, owner |-> owner, code |-> 302, body |-> "saved"]
    /\ UNCHANGED <<threads, chatMessages, req, now>>
    /\ UNCHANGED <<loginVars, adminVars, favorites>>

----------------------------------------------------------------------------
(* Notifications: the admin site's NotificationAdmin and notifications_list *)

NotificationIds == 1..Len(notifications)

TITLE_NOTICE == "notice"

\* Staff add a notification in the admin site: the recipient may be left
\* empty (NoUser: the notification is for everyone), is_active is a checkbox
\* of the form, created_at is auto_now_add
NotificationAdminAdd(recipient, active) ==
    /\ Len(notifications) < MaxNotifs
    /\ notifications' = Append(notifications,
            [Notify(recipient, 0, TITLE_NOTICE, <<>>) EXCEPT !.is_active = active])
    /\ out' = [op |-> "notification_admin", pc |-> "done",
               notification |-> Len(notifications) + 1,
               code |-> 302, body |-> "saved"]
    /\ UNCHANGED <<listings, threads, chatMessages, req, now, reports>>
    /\ UNCHANGED <<loginVars, favorites>>

\* Staff switch a notification on or off in the admin site
NotificationAdminChange(n, active) ==
    /\ n \in NotificationIds
    /\ notifications' = [notifications EXCEPT ![n].is_active = active]
    /\ out' = [op |-> "notification_admin", pc |-> "done", notification |-> n,
               code |-> 302, body |-> "saved"]
    /\ UNCHANGED <<listings, threads, chatMessages, req, now, reports>>
    /\ UNCHANGED <<loginVars, favorites>>

AddressedTo(u) ==
    { n \in NotificationIds : /\ notifications[n].is_active
                              /\ notifications[n].recipient = u }

\* Notification.objects.filter(is_active=True)
\*     .filter(Q(recipient=request.user) | Q(recipient__isnull=True))
VisibleTo(u) ==
    { n \in NotificationIds : /\ notifications[n].is_active
                              /\ \/ notifications[n].recipient = u
                                 \/ notifications[n].recipient = NoUser }

\* Notification.Meta.ordering = ["-created_at"]: ORDER BY created_at DESC
\* fixes the order of rows of different times only; rows of one time come
\* in any order
NewestFirst(S) ==
    { s \in [1..Cardinality(S) -> S] :
        /\ \A i, j \in 1..Cardinality(S) : i # j => s[i] # s[j]
        /\ \A i, j \in 1..Cardinality(S) :
             i < j => notifications[s[i]].created_at >= notifications[s[j]].created_at }

\* notifications_list: the page lists the rows of the query
notifications_list(u) ==
    /\ \E s \in NewestFirst(VisibleTo(u)) :
         out' = [op |-> "notifications_list", pc |-> "done", user |-> u,
                 result |-> s, code |-> 200, body |-> "page"]
    /\ UNCHANGED <<listings, threads, chatMessages, req, now>>
    /\ UNCHANGED <<loginVars, adminVars, favorites>>

----------------------------------------------------------------------------
(* Favorites: favorite_toggle *)

FavoriteIds == { f \in 1..Len(favorites) : ~favorites[f].deleted }

\* Favorite.objects.filter(user=, listing=)
FavoritesOf(u, l) ==
    { f \in FavoriteIds : favorites[f].user = u /\ favorites[f].listing = l }

\* Favorite.Meta.unique_together = ("user", "listing")
FavoriteUniqueViolation(u, l) == FavoritesOf(u, l) # {}

KeepRow(f) == favorites

\* fav.delete(): DELETE ... WHERE id = f
DeleteFavorite(f) == [favorites EXCEPT ![f].deleted = TRUE]

\* The request is remembered with two facts of its start: whether the pair
\* was a favorite, and the toggle answered by the step before, if any
LastToggle ==
    IF out.op = "favorite_toggle" /\ out.pc = "done"
    THEN <<[user |-> out.user, listing |-> out.listing, code |-> out.code,
            was |-> out.was]>>
    ELSE <<>>

\* views.py 380-381: the listing must be published (404 otherwise), then the
\* first SELECT of get_or_create
FavStart(p) ==
    /\ Free(p)
    /\ \E u \in {"u1", "u2"}, l \in ListingIds :
        LET r == [IdleReq EXCEPT !.op = "favorite_toggle", !.user = u,
                                 !.listing = l, !.was = FavoritesOf(u, l) # {},
                                 !.prev = LastToggle]
            found == FavoritesOf(u, l)
        IN  IF listings[l].status # STATUS_PUBLISHED
            THEN Finish(p, r, FALSE, 404, "not_found")
            ELSE IF found = {}
            THEN Continue(p, [r EXCEPT !.pc = "fav_create"])
            ELSE IF Cardinality(found) > 1
            THEN Finish(p, r, FALSE, 500, "MultipleObjectsReturned")
            ELSE \E f \in found : Continue(p, [r EXCEPT !.pc = "fav_delete", !.fav = f])
    /\ UNCHANGED <<listings, threads, chatMessages, now, favorites>>
    /\ UNCHANGED <<loginVars, adminVars>>

\* get_or_create, DoesNotExist branch: INSERT; created = True answers at once
FavCreate(p) ==
    LET r == req[p] IN
    /\ r.op = "favorite_toggle" /\ r.pc = "fav_create"
    /\ IF FavoriteUniqueViolation(r.user, r.listing)
       THEN /\ Continue(p, [r EXCEPT !.pc = "fav_reget"])
            /\ UNCHANGED favorites
       ELSE /\ Len(favorites) < MaxFavs
            /\ favorites' = Append(favorites,
                    [user |-> r.user, listing |-> r.listing, deleted |-> FALSE])
            /\ Finish(p, [r EXCEPT !.fav = Len(favorites) + 1, !.goc = "created"],
                      FALSE, 302, "redirect")
    /\ UNCHANGED <<listings, threads, chatMessages, now>>
    /\ UNCHANGED <<loginVars, adminVars>>

\* get_or_create, IntegrityError branch: SELECT again, re-raise when the row
\* is no longer there
FavReget(p) ==
    LET r == req[p]
        found == FavoritesOf(r.user, r.listing)
    IN
    /\ r.op = "favorite_toggle" /\ r.pc = "fav_reget"
    /\ IF found = {}
       THEN Finish(p, r, FALSE, 500, "IntegrityError")
       ELSE IF Cardinality(found) > 1
       THEN Finish(p, r, FALSE, 500, "MultipleObjectsReturned")
       ELSE \E f \in found : Continue(p, [r EXCEPT !.pc = "fav_delete", !.fav = f])
    /\ UNCHANGED <<listings, threads, chatMessages, now, favorites>>
    /\ UNCHANGED <<loginVars, adminVars>>

\* views.py 382-385: `if not created: fav.delete()`, then the redirect
FavDelete(p) ==
    LET r == req[p] IN
    /\ r.op = "favorite_toggle" /\ r.pc = "fav_delete"
    /\ favorites' = DeleteFavorite(r.fav)
    /\ Finish(p, [r EXCEPT !.goc = "got"], FALSE, 302, "redirect")
    /\ UNCHANGED <<listings, threads, chatMessages, now>>
    /\ UNCHANGED <<loginVars, adminVars>>

----------------------------------------------------------------------------
(* The owner's cabinet: creating and editing listings through ListingForm *)

STATUS_DRAFT == "draft"
STATUS_ARCHIVED == "archived"

STATUS_CHOICES == {STATUS_DRAFT, STATUS_PUBLISHED, STATUS_ARCHIVED, STATUS_BLOCKED}

\* What a POST may carry in its status field: a choice, or something that is
\* no choice (nothing)
StatusInputs == STATUS_CHOICES \cup {""}

\* The form of a listing that is not saved yet (instance.pk is None)
NewListing == 0

\* ListingForm.__init__: blocked is a choice only for a listing that is
\* blocked
AllowedChoices(l) ==
    (STATUS_CHOICES \ {STATUS_BLOCKED}) \cup
    (IF l \in DOMAIN listings /\ listings[l].status = STATUS_BLOCKED
     THEN {STATUS_BLOCKED} ELSE {})

CleanStatusAlwaysOk(l, status) == TRUE

\* ListingForm.clean_status: a blocked listing stays blocked
CleanStatusOk(l, status) ==
    ~(l \in DOMAIN listings /\ listings[l].status = STATUS_BLOCKED
        /\ status # STATUS_BLOCKED)

\* form.is_valid(), as far as the status is concerned
ListingFormValid(l, status) ==
    status \in AllowedChoices(l) /\ CleanStatusOk(l, status)

CabinetResponse(op, u, l, status, code, body) ==
    [op |-> op, pc |-> "done", user |-> u, listing |-> l, status |-> status,
     code |-> code, body |-> body]

\* dashboard_create: a valid form is saved as a new listing of the user
dashboard_create(u, status) ==
    /\ IF ListingFormValid(NewListing, status)
       THEN /\ Cardinality(DOMAIN listings) < MaxListings
            /\ listings' = listings @@
                    ((Cardinality(DOMAIN listings) + 1) :> [owner |-> u, status |-> status])
            /\ out' = CabinetResponse("dashboard_create", u,
                        Cardinality(DOMAIN listings) + 1, status, 302, "saved")
       ELSE /\ listings' = listings
            /\ out' = CabinetResponse("dashboard_create", u, NewListing, status,
                        200, "invalid")
    /\ UNCHANGED <<threads, chatMessages, req, now>>
    /\ UNCHANGED <<loginVars, adminVars, favorites>>

\* dashboard_update: the listing is looked up among the user's own; a valid
\* form is saved over it
dashboard_update(u, l, status) ==
    /\ l \in DOMAIN listings
    /\ IF listings[l].owner # u
       THEN /\ listings' = listings
            /\ out' = CabinetResponse("dashboard_update", u, l, status, 404, "not_found")
       ELSE IF ListingFormValid(l, status)
       THEN /\ listings' = [listings EXCEPT ![l].status = status]
            /\ out' = CabinetResponse("dashboard_update", u, l, status, 302, "saved")
       ELSE /\ listings' = listings
            /\ out' = CabinetResponse("dashboard_update", u, l, status, 200, "invalid")
    /\ UNCHANGED <<threads, chatMessages, req, now>>
    /\ UNCHANGED <<loginVars, adminVars, favorites>>

\* ListingAdmin: staff save a listing in the admin site with any status
ListingAdminSave(l, status) ==
    /\ l \in DOMAIN listings
    /\ listings' = [listings EXCEPT ![l].status = status]
    /\ out' = CabinetResponse("listing_admin_save", NoUser, l, status, 302, "saved")
    /\ UNCHANGED <<threads, chatMessages, req, now>>
    /\ UNCHANGED <<loginVars, adminVars, favorites>>

----------------------------------------------------------------------------
Init ==
    /\ listings = InitListings
    /\ threads = <<>>
    /\ chatMessages = <<>>
    /\ req = [p \in Procs |-> IdleReq]
    /\ out = IdleReq
    /\ now = 0
    /\ cache = <<>>
    /\ passAges = <<>>
    /\ passRun = <<>>
    /\ streak = <<>>
    /\ tenth = <<>>
    /\ reports = <<>>
    /\ notifications = <<>>
    /\ favorites = <<>>

\* One worker: every request runs from its first statement to its response
\* before the next one starts (get_or_create then never meets IntegrityError)
NextChat ==
    \/ SendStart(1)
    \/ SendCreate(1)
    \/ InsertMessage(1)
    \/ BumpThread(1)
    \/ ChatStart(1)
    \/ ChatMarkRead(1)
    \/ ChatRender(1)
    \/ PollStart(1)
    \/ PollMark(1)

SpecChat == Init /\ [][NextChat]_vars

\* The same requests, one at a time, while time passes
NextTimedChat == NextChat \/ Tick

SpecTimedChat == Init /\ [][NextTimedChat]_vars

\* NumProcs workers, each handling send_message requests: the statements of
\* concurrent sends interleave
NextSendRace ==
    \E p \in Procs :
        \/ SendStart(p)
        \/ SendCreate(p)
        \/ SendReget(p)
        \/ InsertMessage(p)
        \/ BumpThread(p)

SpecSendRace == Init /\ [][NextSendRace]_vars

\* NumProcs workers: the statements of concurrent send_message and
\* chat_messages_api requests interleave
NextRace ==
    \E p \in Procs :
        \/ SendStart(p)
        \/ SendCreate(p)
        \/ SendReget(p)
        \/ InsertMessage(p)
        \/ BumpThread(p)
        \/ PollStart(p)
        \/ PollMark(p)

SpecRace == Init /\ [][NextRace]_vars

\* Concurrent sends with time passing between their statements, and polls
\* that see the result
NextTimedRace ==
    \/ NextSendRace
    \/ PollStart(1)
    \/ PollMark(1)
    \/ Tick

SpecTimedRace == Init /\ [][NextTimedRace]_vars

\* Sends and chat pages of one worker, while staff move listing 1 between
\* two owners, also between the statements of a request
NextParties ==
    \/ SendStart(1)
    \/ SendCreate(1)
    \/ InsertMessage(1)
    \/ BumpThread(1)
    \/ ChatStart(1)
    \/ ChatMarkRead(1)
    \/ ChatRender(1)
    \/ \E owner \in {"u1", "u2"} : ListingAdminOwner(1, owner)

SpecParties == Init /\ [][NextParties]_vars

\* Login POSTs one at a time, half a window apart or more: the per-IP window
NextThrottle ==
    \/ LoginPost({ <<>>, <<"A", "b">>, <<"a", "b">> })
    \/ Advance(LOGIN_WINDOW_SECONDS \div 2)

SpecThrottle == Init /\ [][NextThrottle]_vars

\* Login POSTs one at a time, a third of a lock period apart or more: the
\* per-(IP, username) lock
NextLogin ==
    \/ LoginPost(UserNames)
    \/ Advance(LOGIN_LOCK_SECONDS \div 3)

SpecLogin == Init /\ [][NextLogin]_vars

\* Reports are filed and moderated, one request at a time
NextAdmin ==
    \/ \E u \in Users, l \in ListingIds : report_listing(u, l)
    \/ \E m \in Moderators, pk \in 1..MaxReports,
          status \in MODERATION_STATUS_CHOICES, raw \in ReasonTexts :
            AdminChange(m, pk, status, raw)
    \/ \E m \in Moderators, l \in ListingIds, u \in Users,
          status \in MODERATION_STATUS_CHOICES, raw \in ReasonTexts :
            AdminAdd(m, l, u, status, raw)
    \/ Tick

SpecAdmin == Init /\ [][NextAdmin]_vars

\* Owners create and edit listings while reports on them are filed and
\* decided and staff edit listings, one request at a time
NextListing ==
    \/ \E u \in {"u1", "u2"}, status \in StatusInputs : dashboard_create(u, status)
    \/ \E u \in {"u1", "u2"}, l \in 1..MaxListings, status \in StatusInputs :
            dashboard_update(u, l, status)
    \/ \E l \in 1..MaxListings, status \in STATUS_CHOICES : ListingAdminSave(l, status)
    \/ \E l \in ListingIds : report_listing("u2", l)
    \/ \E pk \in 1..MaxReports, status \in {MODERATION_PENDING, MODERATION_APPROVED} :
            AdminChange("m1", pk, status, <<>>)

SpecListing == Init /\ [][NextListing]_vars

\* Reports are filed and decided in every way, while the owner edits the
\* listings and staff block and publish them, one request at a time
NextModeration ==
    \/ \E l \in ListingIds : report_listing("u2", l)
    \/ \E pk \in 1..MaxReports, status \in MODERATION_STATUS_CHOICES,
          raw \in { <<>>, <<" ", "h", "i", " ">> } :
            AdminChange("m1", pk, status, raw)
    \/ \E l \in ListingIds, status \in StatusInputs : dashboard_update("u1", l, status)
    \/ \E l \in ListingIds, status \in {STATUS_PUBLISHED, STATUS_BLOCKED} :
            ListingAdminSave(l, status)

SpecModeration == Init /\ [][NextModeration]_vars

\* Notifications are made by report moderation and by staff, switched on and
\* off by staff, and listed by the users, one request at a time
NextNotify ==
    \/ \E l \in ListingIds : report_listing("u2", l)
    \/ \E pk \in 1..MaxReports, status \in {MODERATION_IN_REVIEW, MODERATION_APPROVED} :
            AdminChange("m1", pk, status, <<>>)
    \/ \E recipient \in {NoUser, "u3"}, active \in BOOLEAN :
            NotificationAdminAdd(recipient, active)
    \/ \E n \in 1..MaxNotifs, active \in BOOLEAN : NotificationAdminChange(n, active)
    \/ \E u \in Users : notifications_list(u)
    \/ Tick

SpecNotify == Init /\ [][NextNotify]_vars

\* favorite_toggle requests one at a time, while staff block and publish
\* listings
NextFavorite ==
    \/ FavStart(1)
    \/ FavCreate(1)
    \/ FavDelete(1)
    \/ \E l \in ListingIds, status \in {STATUS_PUBLISHED, STATUS_BLOCKED} :
            ListingAdminSave(l, status)

SpecFavorite == Init /\ [][NextFavorite]_vars

\* NumProcs workers: the statements of concurrent favorite_toggle requests
\* interleave
NextFavoriteRace ==
    \E p \in Procs :
        \/ FavStart(p)
        \/ FavCreate(p)
        \/ FavReget(p)
        \/ FavDelete(p)

SpecFavoriteRace == Init /\ [][NextFavoriteRace]_vars

----------------------------------------------------------------------------
(* Properties of the chat thread manager *)

Range(f) == { f[i] : i \in DOMAIN f }

AllIdle == \A p \in Procs : req[p].pc = "idle"

\* `out` is the response to a send_message of a user who is not the owner of
\* the listing, which has an owner
NonOwnerSendDone ==
    /\ out.op = "send_message"
    /\ out.pc = "done"
    /\ listings[out.listing].owner \notin {NoUser, out.user}

\* C1: at every moment there is at most one ChatThread per (listing,
\* landlord, tenant); and whenever a send_message of a non-owner on an owned
\* listing completes, however it interleaved with others, it has not failed
\* (no 500, no 403) and exactly one thread of its triple exists.
C1_OneThreadPerTriple ==
    /\ \A t1, t2 \in ThreadIds :
          ( /\ threads[t1].listing = threads[t2].listing
            /\ threads[t1].landlord = threads[t2].landlord
            /\ threads[t1].tenant = threads[t2].tenant ) => t1 = t2
    /\ NonOwnerSendDone =>
          /\ out.code \in {200, 302, 400}
          /\ Cardinality({ t \in ThreadIds :
                             /\ threads[t].listing = out.listing
                             /\ threads[t].landlord = listings[out.listing].owner
                             /\ threads[t].tenant = out.user }) = 1

\* C1 witness: two first messages of u2 on listing 1 raced, the one that lost
\* the INSERT (IntegrityError, second SELECT) has now also been answered 200,
\* and both messages are in the one thread.
C1_Witness ==
    /\ NonOwnerSendDone /\ out.user = "u2" /\ out.goc = "regot" /\ out.code = 200
    /\ AllIdle
    /\ Len(threads) = 1
    /\ Len(chatMessages) = 2
    /\ \A m \in MsgIds : chatMessages[m].thread = 1 /\ chatMessages[m].sender = "u2"

\* C2 (as claimed): every message that a poll marks as read is in that
\* poll's response.
C2_MarkedOnlyIfReturned ==
    (out.op = "chat_messages_api" /\ out.code = 200) =>
        out.marked \subseteq Range(out.result)

\* C3: a poll's SELECT returns exactly the thread's messages with id >
\* after_id; its UPDATE leaves every returned message addressed to the caller
\* read, and changes no message with id <= after_id, none addressed to the
\* other party and none of another thread.
C3_SelectStep(p) ==
    (req[p].pc = "idle" /\ req'[p].op = "chat_messages_api" /\ req'[p].pc = "mark") =>
        LET t == req'[p].thread
            a == req'[p].after
            ids == Range(req'[p].result)
        IN  /\ Participant(req'[p].user, t)
            /\ Len(req'[p].result) = Cardinality(ids)
            /\ \A m \in ids : m \in MsgIds /\ m > a /\ chatMessages[m].thread = t
            /\ \A m \in MsgIds : (m > a /\ chatMessages[m].thread = t) => m \in ids

C3_MarkStep(p) ==
    (req[p].op = "chat_messages_api" /\ req[p].pc = "mark" /\ req'[p].pc = "idle") =>
        LET t == req[p].thread
            a == req[p].after
            u == req[p].user
        IN  /\ out'.code = 200 /\ out'.result = req[p].result
            /\ Len(chatMessages') = Len(chatMessages)
            /\ \A m \in Range(req[p].result) :
                  chatMessages[m].recipient = u => chatMessages'[m].is_read
            /\ \A m \in MsgIds :
                  (m <= a \/ chatMessages[m].recipient # u \/ chatMessages[m].thread # t)
                      => chatMessages'[m] = chatMessages[m]

C3_PollContract ==
    [][\A p \in Procs : C3_SelectStep(p) /\ C3_MarkStep(p)]_vars

\* C3 witness: a poll with after_id = 1 has returned message 2 alone and
\* marked it read for its recipient, the caller; message 1, of the same
\* thread and also addressed to the caller, is still unread; the thread also
\* holds nothing of the other thread.
C3_Witness ==
    /\ out.op = "chat_messages_api" /\ out.code = 200 /\ out.after = 1
    /\ out.result = <<2>> /\ out.marked = {2}
    /\ Len(chatMessages) = 2
    /\ chatMessages[1].thread = out.thread /\ chatMessages[1].recipient = out.user
    /\ ~chatMessages[1].is_read
    /\ chatMessages[2].is_read

----------------------------------------------------------------------------
(* Properties of the login rate limiter *)

LoginStep == out'.op = "login"

PassesInWindow(ip) == Len(Lookup(passAges, ip, <<>>))

FailCounter(k) == <<"auth:fail", k[1], k[2]>>
LockFlag(k) == <<"auth:lock", k[1], k[2]>>
Locked(k) == LockFlag(k) \in DOMAIN cache
Pairs == { PairOf(ip, raw) : ip \in IPs, raw \in UserNames }
Failures(k) == Lookup(streak, k, [n |-> 0]).n

ProtectionKeys(c) == { x \in DOMAIN c : x[1] \in {"auth:fail", "auth:lock"} }

\* C4: of the login POSTs of one IP, handled one at a time, at most 5 of any
\* 60 seconds get past the per-IP check; a POST that comes when 5 of the last
\* 60 seconds already got past is answered 429, logs nobody in and leaves
\* every failure counter and every lock flag as it was.
C4_AtMostFivePass == \A ip \in IPs : PassesInWindow(ip) <= LOGIN_MAX_ATTEMPTS_PER_IP

C4_FurtherPostRejected ==
    \A ip \in IPs :
        (LoginStep /\ out'.ip = ip /\ PassesInWindow(ip) >= LOGIN_MAX_ATTEMPTS_PER_IP) =>
            /\ out'.code = 429
            /\ out'.user = NoUser
            /\ passAges' = passAges
            /\ ProtectionKeys(cache') = ProtectionKeys(cache)
            /\ \A x \in ProtectionKeys(cache) : cache'[x] = cache[x]

C4_PerIpThrottle == [](C4_AtMostFivePass) /\ [][C4_FurtherPostRejected]_vars

\* C4 witness: five POSTs got past within the last 60 seconds, some of them 30
\* seconds ago, and the POST just answered, with correct credentials, got 429.
C4_Witness ==
    /\ out.op = "login" /\ out.code = 429 /\ out.valid
    /\ \E ip \in IPs :
        /\ out.ip = ip
        /\ PassesInWindow(ip) = LOGIN_MAX_ATTEMPTS_PER_IP
        /\ passAges[ip][1] = 0
        /\ passAges[ip][5] = LOGIN_WINDOW_SECONDS \div 2
    /\ ProtectionKeys(cache) # {}

\* C5: the lock flag of a pair (username trimmed and lower-cased) is set only
\* when 10 failed credential checks have accumulated (each within 900 s of
\* the one before, no successful login in between); once they have, the flag
\* is set for the 900 s that follow, and every POST for the pair in that time
\* is answered 429 and logs nobody in.
C5_LockIffTenFailures ==
    \A k \in Pairs : Locked(k) <=> Failures(k) >= LOGIN_MAX_FAILURES_BEFORE_LOCK

C5_LockedPostRejected ==
    \A k \in Pairs :
        (LoginStep /\ out'.pair = k /\ Failures(k) >= LOGIN_MAX_FAILURES_BEFORE_LOCK) =>
            out'.code = 429 /\ out'.user = NoUser

C5_LockAfterTenFailures ==
    [](C5_LockIffTenFailures) /\ [][C5_LockedPostRejected]_vars

\* C5 witness: 600 s after the tenth failure of the pair of account "Ab", a
\* POST with that account's own name and password has been answered 429 by
\* the lock (the per-IP window was free), while a pair with 9 failures is not
\* locked.
C5_Witness ==
    /\ out.op = "login" /\ out.code = 429 /\ out.valid /\ out.raw = <<" ", "A", "b", " ">>
    /\ PassesInWindow(out.ip) = 1
    /\ Locked(out.pair)
    /\ streak[out.pair].age = 600
    /\ \E k \in Pairs : Failures(k) = 9 /\ ~Locked(k)

\* C6: a POST for a locked pair leaves its lock flag and its failure counter
\* as they were (value and time left); 900 s after the tenth failure neither
\* is there; and a POST with correct credentials that comes then, with fewer
\* than 5 POSTs past the per-IP check in the last 60 s, logs the user in and
\* leaves the pair with no failure counter and no lock.
C6_LockedPostKeepsLock ==
    \A k \in Pairs :
        (LoginStep /\ out'.pair = k /\ Locked(k)) =>
            /\ LockFlag(k) \in DOMAIN cache' /\ cache'[LockFlag(k)] = cache[LockFlag(k)]
            /\ FailCounter(k) \in DOMAIN cache /\ FailCounter(k) \in DOMAIN cache'
            /\ cache'[FailCounter(k)] = cache[FailCounter(k)]

C6_Expired(k) == k \in DOMAIN tenth /\ tenth[k] >= LOGIN_LOCK_SECONDS

C6_LockEnds ==
    \A k \in Pairs :
        /\ (k \in DOMAIN tenth /\ tenth[k] < LOGIN_LOCK_SECONDS) => Locked(k)
        /\ C6_Expired(k) => ~Locked(k) /\ FailCounter(k) \notin DOMAIN cache

C6_LoginAfterLock ==
    \A k \in Pairs :
        ( /\ LoginStep /\ out'.pair = k /\ out'.valid
          /\ C6_Expired(k)
          /\ PassesInWindow(out'.ip) < LOGIN_MAX_ATTEMPTS_PER_IP ) =>
            /\ out'.code = 302 /\ out'.user = Strip(out'.raw)
            /\ LockFlag(k) \notin DOMAIN cache'
            /\ FailCounter(k) \notin DOMAIN cache'

C6_LockAlwaysEnds ==
    /\ [](C6_LockEnds)
    /\ [][C6_LockedPostKeepsLock /\ C6_LoginAfterLock]_vars

\* C6 witness: the pair was locked, 900 s have passed since its tenth failure,
\* and the POST just answered logged the user in; neither key is in the cache.
C6_Witness ==
    /\ out.op = "login" /\ out.code = 302 /\ out.user = <<"A", "b">>
    /\ C6_Expired(out.pair)
    /\ ~Locked(out.pair) /\ FailCounter(out.pair) \notin DOMAIN cache

\* C7: after a successful login neither the failure counter nor the lock
\* flag of its pair is in the cache, and a pair is locked only when 10 failed
\* checks have accumulated since its last successful login (the history
\* counter starts again at a success).
C7_SuccessClears ==
    /\ (out.op = "login" /\ out.code = 302) =>
          /\ FailCounter(out.pair) \notin DOMAIN cache
          /\ LockFlag(out.pair) \notin DOMAIN cache
          /\ Failures(out.pair) = 0
    /\ \A k \in Pairs :
          Failures(k) < LOGIN_MAX_FAILURES_BEFORE_LOCK => ~Locked(k)

\* C7 witness: the pair had 9 failures, the login just answered succeeded and
\* cleared them.
C7_Witness ==
    /\ out.op = "login" /\ out.code = 302 /\ out.before = 9
    /\ FailCounter(out.pair) \notin DOMAIN cache

----------------------------------------------------------------------------
(* Properties of report moderation *)

AdminStep == out'.op = "admin_save"

\* The status of report pk in the database, NoStatus when there is no row
PersistedStatus(rs, pk) ==
    IF pk \in DOMAIN rs THEN rs[pk].moderation_status ELSE NoStatus

\* The notifications a step has created
NewNotifications ==
    SubSeq(notifications', Len(notifications) + 1, Len(notifications'))

\* C8: an admin save whose saved status is the status persisted before it,
\* or is pending, creates no notification and leaves every listing's status
\* as it was.
C8_QuietStep ==
    AdminStep =>
        LET pk == out'.report
            before == PersistedStatus(reports, pk)
            after == PersistedStatus(reports', pk)
        IN  (after = before \/ after = MODERATION_PENDING) =>
                notifications' = notifications /\ listings' = listings

C8_SideEffectsOnlyOnChange == [][C8_QuietStep]_vars

\* C8 witness: a report that was approved has been saved again as approved,
\* with a reason this time; the save created nothing.
C8_Witness ==
    /\ out.op = "admin_save" /\ out.body = "saved"
    /\ out.previous = MODERATION_APPROVED /\ out.status = MODERATION_APPROVED
    /\ out.created = 0
    /\ reports[out.report].moderation_reason # <<>>
    /\ Len(notifications) = 2
    /\ notifications[2].reason = <<>>

\* C9: after every admin save of a report, reviewed_by and reviewed_at are
\* both set when the saved status is not pending and both null when it is
\* pending; a save that turns the status back to pending creates no
\* notification.
C9_StampStep ==
    (AdminStep /\ out'.body = "saved") =>
        LET r == reports'[out'.report]
        IN  /\ r.moderation_status # MODERATION_PENDING =>
                r.reviewed_by = out'.user /\ r.reviewed_at = now
            /\ r.moderation_status = MODERATION_PENDING =>
                /\ r.reviewed_by = NoUser /\ r.reviewed_at = NoTime
                /\ notifications' = notifications

C9_ReviewerIffNotPending == [][C9_StampStep]_vars

\* C9 witness: an approved report, reviewed by a moderator, has been saved as
\* pending: reviewer and review time are null, the notifications of the
\* approval are the only ones, the listing is still blocked.
C9_Witness ==
    /\ out.op = "admin_save" /\ out.body = "saved"
    /\ out.previous = MODERATION_APPROVED /\ out.status = MODERATION_PENDING
    /\ reports[out.report].reviewed_by = NoUser
    /\ reports[out.report].reviewed_at = NoTime
    /\ Len(notifications) = 2
    /\ listings[reports[out.report].listing].status = STATUS_BLOCKED

\* C10: a save as rejected with a blank reason is refused and changes neither
\* reports nor listings nor notifications; a save that changes the status to
\* rejected with a reason that is not blank creates exactly one notification,
\* for the reporter, of the rejection, with the reason trimmed, and leaves
\* every listing's status as it was.
C10_RefusedStep ==
    (AdminStep /\ out'.status = MODERATION_REJECTED /\ Strip(out'.raw) = <<>>) =>
        /\ out'.body = "invalid"
        /\ reports' = reports /\ listings' = listings
        /\ notifications' = notifications

C10_RejectedStep ==
    ( /\ AdminStep /\ out'.status = MODERATION_REJECTED /\ Strip(out'.raw) # <<>>
      /\ PersistedStatus(reports, out'.report) # MODERATION_REJECTED ) =>
        /\ PersistedStatus(reports', out'.report) = MODERATION_REJECTED
        /\ Len(NewNotifications) = 1
        /\ Len(notifications') = Len(notifications) + 1
        /\ NewNotifications[1].recipient = reports'[out'.report].reporter
        /\ NewNotifications[1].related_report = out'.report
        /\ NewNotifications[1].title = TITLE_REJECTED
        /\ NewNotifications[1].reason = Strip(out'.raw)
        /\ listings' = listings

C10_RejectionNeedsReason == [][C10_RefusedStep /\ C10_RejectedStep]_vars

\* C10 witness: a report on a listing that has an owner has been rejected
\* with the reason " hi "; the one notification there is goes to the
\* reporter, who is not the owner, and carries "hi"; the listing is
\* published.
C10_Witness ==
    /\ out.op = "admin_save" /\ out.body = "saved"
    /\ out.status = MODERATION_REJECTED /\ out.raw = <<" ", "h", "i", " ">>
    /\ out.previous = MODERATION_PENDING
    /\ Len(notifications) = 1
    /\ notifications[1].reason = <<"h", "i">>
    /\ notifications[1].recipient = reports[out.report].reporter
    /\ listings[reports[out.report].listing].owner \notin {NoUser, notifications[1].recipient}
    /\ listings[reports[out.report].listing].status = STATUS_PUBLISHED

\* The notifications of a step with the given title for the given user
NewFor(u, title) ==
    { i \in DOMAIN NewNotifications :
        NewNotifications[i].recipient = u /\ NewNotifications[i].title = title }

\* C11: a save that changes a report's status to approved leaves the reported
\* listing blocked, changes nothing else of any listing (nothing at all when
\* the listing was blocked already), and creates exactly one notification
\* for the reporter, plus exactly one for the owner of the listing when it
\* has one and no other otherwise.
C11_ApprovedStep ==
    ( /\ AdminStep /\ out'.body = "saved" /\ out'.status = MODERATION_APPROVED
      /\ PersistedStatus(reports, out'.report) # MODERATION_APPROVED ) =>
        LET r == reports'[out'.report]
            owner == listings[r.listing].owner
        IN  /\ listings'[r.listing].status = STATUS_BLOCKED
            /\ listings'[r.listing].owner = owner
            /\ \A l \in DOMAIN listings \ {r.listing} : listings'[l] = listings[l]
            /\ listings[r.listing].status = STATUS_BLOCKED => listings' = listings
            /\ Cardinality(NewFor(r.reporter, TITLE_APPROVED)) = 1
            /\ \A i \in DOMAIN NewNotifications :
                    NewNotifications[i].related_report = out'.report
            /\ IF owner # NoUser
               THEN /\ Len(NewNotifications) = 2
                    /\ Cardinality(NewFor(owner, TITLE_BLOCKED)) = 1
               ELSE Len(NewNotifications) = 1

C11_ApprovalBlocksAndNotifies == [][C11_ApprovedStep]_vars

\* C11 witness: a report on a listing that has an owner was approved, set
\* back to pending and has been approved again: the listing was blocked
\* already, and reporter and owner have been notified a second time.
C11_Witness ==
    /\ out.op = "admin_save" /\ out.body = "saved"
    /\ out.previous = MODERATION_PENDING /\ out.status = MODERATION_APPROVED
    /\ out.created = 2
    /\ Len(notifications) = 4
    /\ \A i \in 1..4 : notifications[i].related_report = out.report
    /\ notifications[1].title = TITLE_APPROVED /\ notifications[2].title = TITLE_BLOCKED
    /\ notifications[3].title = TITLE_APPROVED /\ notifications[4].title = TITLE_BLOCKED
    /\ notifications[4].recipient = listings[reports[out.report].listing].owner
    /\ listings[reports[out.report].listing].status = STATUS_BLOCKED

----------------------------------------------------------------------------
(* Properties of the owner's cabinet *)

OwnerStep == out'.op \in {"dashboard_create", "dashboard_update"}

IsBlocked(ls, l) == l \in DOMAIN ls /\ ls[l].status = STATUS_BLOCKED

\* C12: dashboard_create and dashboard_update never change whether a listing
\* is blocked: no existing listing becomes blocked or stops being blocked,
\* no listing is created blocked; an update of a blocked listing by its owner
\* with any other status is answered as invalid and changes no listing; and
\* a listing becomes blocked only in an admin save of a report as approved
\* or in a save of the listing by staff.
C12_OwnerStep ==
    OwnerStep =>
        /\ \A l \in DOMAIN listings' : IsBlocked(listings', l) <=> IsBlocked(listings, l)
        /\ DOMAIN listings \subseteq DOMAIN listings'

C12_UnblockRefused ==
    ( /\ out'.op = "dashboard_update"
      /\ IsBlocked(listings, out'.listing)
      /\ listings[out'.listing].owner = out'.user
      /\ out'.status # STATUS_BLOCKED ) =>
        out'.body = "invalid" /\ listings' = listings

C12_BlockedOnlyByStaff ==
    (\E l \in DOMAIN listings' : IsBlocked(listings', l) /\ ~IsBlocked(listings, l)) =>
        \/ out'.op = "listing_admin_save"
        \/ out'.op = "admin_save" /\ out'.status = MODERATION_APPROVED

----------------------------------------------------------------------------
(* Further properties of the chat *)

SendResponse == out'.op = "send_message" /\ out'.pc = "done"

\* C13: send_message for a listing that has no owner, or sent by the owner of
\* the listing, never gets past the owner check: no such request is ever in
\* flight behind it, its response is 403 "forbidden" to XMLHttpRequest and a
\* redirect otherwise, and the step that answers it leaves threads (rows and
\* updated_at) and messages as they were.
C13_NoneInFlight ==
    \A p \in Procs :
        (req[p].op = "send_message" /\ req[p].pc # "idle") =>
            /\ listings[req[p].listing].owner # NoUser
            /\ listings[req[p].listing].owner # req[p].user

C13_RefusedStep ==
    ( /\ SendResponse
      /\ listings[out'.listing].owner \in {NoUser, out'.user} ) =>
        /\ IF out'.xhr THEN out'.code = 403 /\ out'.body = "forbidden"
                       ELSE out'.code = 302 /\ out'.body = "redirect"
        /\ out'.thread = 0 /\ out'.msg = 0
        /\ threads' = threads
        /\ chatMessages' = chatMessages

C13_OwnerOrOwnerlessRefused == [](C13_NoneInFlight) /\ [][C13_RefusedStep]_vars

\* C13 witness: the owner of a listing has been answered 403 for a message
\* on the own listing, while a thread on that listing with a message exists
\* and another send is in flight.
C13_Witness ==
    /\ out.op = "send_message" /\ out.pc = "done"
    /\ out.code = 403 /\ out.body = "forbidden"
    /\ out.user = listings[out.listing].owner
    /\ \E t \in DOMAIN threads : threads[t].listing = out.listing
    /\ Len(chatMessages) >= 1
    /\ \E p \in Procs : req[p].pc # "idle"

ThreadResponse ==
    out'.pc = "done" /\ out'.op \in {"chat_detail", "chat_messages_api"}

Outsider(u, t) == u \notin {threads[t].landlord, threads[t].tenant}

\* C14: a user who is neither landlord nor tenant of a thread never gets past
\* the access check of chat_detail (GET or POST) or chat_messages_api: no
\* such request is in flight behind it, its response is 403 "forbidden" to
\* XMLHttpRequest and a redirect otherwise, carries no message, and the step
\* that answers it leaves messages (rows and is_read) and threads
\* (updated_at) as they were.
C14_NoneInFlight ==
    \A p \in Procs :
        (req[p].op \in {"chat_detail", "chat_messages_api"} /\ req[p].pc # "idle") =>
            ~Outsider(req[p].user, req[p].thread)

C14_ForbiddenStep ==
    (ThreadResponse /\ Outsider(out'.user, out'.thread)) =>
        /\ IF out'.xhr THEN out'.code = 403 /\ out'.body = "forbidden"
                       ELSE out'.code = 302 /\ out'.body = "redirect"
        /\ out'.result = <<>> /\ out'.marked = {} /\ out'.msg = 0
        /\ chatMessages' = chatMessages
        /\ threads' = threads

C14_OutsidersForbidden == [](C14_NoneInFlight) /\ [][C14_ForbiddenStep]_vars

\* C14 witness: a user outside a thread that holds an unread message has
\* polled it from the start and has been answered 403.
C14_Witness ==
    /\ out.op = "chat_messages_api" /\ out.pc = "done" /\ out.after = 0
    /\ out.code = 403
    /\ Outsider(out.user, out.thread)
    /\ \E m \in DOMAIN chatMessages :
        chatMessages[m].thread = out.thread /\ ~chatMessages[m].is_read

\* C15 (as claimed): in every response of chat_messages_api the message ids
\* are strictly increasing, also when the messages were created by sends
\* whose statements interleaved.
C15_AscendingIds ==
    (out.op = "chat_messages_api" /\ out.pc = "done" /\ out.code = 200) =>
        \A i, j \in DOMAIN out.result : i < j => out.result[i] < out.result[j]

----------------------------------------------------------------------------
(* Further properties of the login rate limiter *)

\* The attempt counter of an IP as the cache holds it: value and time left,
\* or nothing
AttemptCounter(c, ip) ==
    IF _window_key(ip) \in DOMAIN c THEN <<c[_window_key(ip)]>> ELSE <<>>

\* C16 (as claimed): every login POST answered 429, by the per-IP throttle or
\* by the lock, changes (increments or refreshes) the attempt counter of its
\* IP.
C16_Every429Recorded ==
    [][(LoginStep /\ out'.code = 429) =>
            AttemptCounter(cache', out'.ip) # AttemptCounter(cache, out'.ip)]_vars

\* C16 (amended): a login POST that the (IP, username) lock answers with 429
\* has been counted in the attempt counter of its IP (one more, 60 s to
\* live); a POST that the per-IP throttle answers with 429 leaves the whole
\* limiter state, that counter's value and time left included, as it was.
C16_LockRejectionStep ==
    (LoginStep /\ out'.code = 429 /\ out'.body = "locked") =>
        AttemptCounter(cache', out'.ip) =
            <<[val |-> CacheGet(cache, _window_key(out'.ip), 0) + 1,
               ttl |-> LOGIN_WINDOW_SECONDS]>>

C16_ThrottleRejectionStep ==
    (LoginStep /\ out'.code = 429 /\ out'.body = "ip") => cache' = cache

C16_Only429ByLockRecorded ==
    [][C16_LockRejectionStep /\ C16_ThrottleRejectionStep]_vars

\* C16 witness: a POST has been answered 429 by the per-IP throttle 30 s
\* after the fifth counted one; the counter still shows 5 with 30 s left,
\* while a pair is locked.
C16_Witness ==
    /\ out.op = "login" /\ out.code = 429 /\ out.body = "ip"
    /\ AttemptCounter(cache, out.ip) =
            <<[val |-> LOGIN_MAX_ATTEMPTS_PER_IP, ttl |-> LOGIN_WINDOW_SECONDS \div 2]>>
    /\ \E k \in Pairs : Locked(k)

----------------------------------------------------------------------------
(* Properties of the read flag *)

\* The worker that takes the step
Actor(p) == req'[p] # req[p]

ReadFlagChanged(m) ==
    m \in DOMAIN chatMessages' /\ chatMessages'[m].is_read # chatMessages[m].is_read

\* C17: a message is created with is_read = false; is_read only ever goes
\* from false to true, and only in a step of a chat_detail request or a
\* chat_messages_api request made by the recipient of the message; no step of
\* a send_message request, and no step of a request of the sender or of a
\* third user, changes it.
C17_ReadFlagStep ==
    /\ \A m \in DOMAIN chatMessages' \ DOMAIN chatMessages : ~chatMessages'[m].is_read
    /\ DOMAIN chatMessages \subseteq DOMAIN chatMessages'
    /\ \A m \in DOMAIN chatMessages :
        ReadFlagChanged(m) =>
            /\ ~chatMessages[m].is_read /\ chatMessages'[m].is_read
            /\ \E p \in Procs :
                /\ Actor(p)
                /\ req[p].op \in {"chat_detail", "chat_messages_api"}
                /\ req[p].user = chatMessages[m].recipient
                /\ req[p].thread = chatMessages[m].thread

----------------------------------------------------------------------------
(* Properties of appending a message *)

\* Nothing but whitespace
Blank(text) == \A i \in 1..Len(text) : text[i] = " "

\* An answered send_message or chat_detail POST that passed the access check
Sent(o) ==
    /\ o.pc = "done"
    /\ \/ o.op = "send_message" /\ ~NoOneToWrite(listings[o.listing].owner, o.user)
       \/ o.op = "chat_detail" /\ o.method = "POST" /\ Participant(o.user, o.thread)

\* What a step of worker p changes in the two chat tables
Inserted == Len(chatMessages') - Len(chatMessages)

Bumped ==
    { t \in ThreadIds : threads'[t].updated_at # threads[t].updated_at }

C18_Step(p) ==
    /\ Inserted \in {0, 1}
    /\ Inserted = 1 =>
        /\ req[p].pc = "msg_insert" /\ req[p].msg = 0 /\ ~Blank(req[p].text)
        /\ req'[p].msg = Len(chatMessages')
        /\ ~chatMessages'[Len(chatMessages')].is_read
    /\ Bumped # {} =>
        /\ req[p].pc = "bump" /\ req[p].msg # 0 /\ ~Blank(req[p].text)
        /\ Bumped = {req[p].thread}

\* The answer of a send, in the state in which it is given
C18_Answer ==
    LET o == out' IN
    IF Blank(o.text)
    THEN /\ o.msg = 0
         /\ o.xhr => o.code = 400 /\ o.body = "empty_message"
         /\ o.op = "send_message" =>
                \E t \in 1..Len(threads') :
                    threads'[t].listing = o.listing /\ threads'[t].tenant = o.user
    ELSE /\ o.msg \in 1..Len(chatMessages')
         /\ [chatMessages'[o.msg] EXCEPT !.is_read = FALSE] =
                [thread |-> o.thread, sender |-> o.user, recipient |-> o.recipient,
                 created_at |-> o.ts, is_read |-> FALSE]
         /\ threads'[o.thread].updated_at = now'
         /\ o.code \in {200, 302}

\* C18: a send (send_message or chat_detail POST, past the access check)
\* whose text is empty after trimming inserts no message and does not change
\* the thread's updated_at, in JSON mode it answers 400 "empty_message", and
\* after send_message the thread of (listing, owner, sender) exists; a send
\* with a non-empty text inserts exactly one message, with is_read = false,
\* and sets the thread's updated_at to the current time.
C18_EmptyRejectedElseAppended ==
    [][/\ \A p \in Procs : Actor(p) => C18_Step(p)
       /\ (\A p \in Procs : ~Actor(p)) => (Inserted = 0 /\ Bumped = {})
       /\ \A p \in Procs :
            req'[p].pc \in {"msg_insert", "bump"} => ~Blank(req'[p].text)
       /\ Sent(out') => C18_Answer]_vars

\* C18 witness: send_message with a text of one space has created the thread
\* and answered 400 "empty_message"; no message exists
C18_Witness ==
    /\ Sent(out) /\ out.op = "send_message" /\ out.text = <<" ">>
    /\ out.goc = "created" /\ out.code = 400
    /\ ThreadsFor(out.listing, out.recipient, out.user) # {}
    /\ Len(chatMessages) = 0

----------------------------------------------------------------------------
(* Properties of the notification feed *)

Listed == { out.result[i] : i \in 1..Len(out.result) }

\* C19: the page that notifications_list renders for a user holds exactly
\* the notifications that are active and whose recipient is that user or
\* empty, each once, with created_at never increasing down the list: no
\* inactive notification, none addressed to another user, and none of the
\* active ones for the user or for everyone missing.
C19_ExactlyVisibleNewestFirst ==
    out.op = "notifications_list" =>
        /\ Listed = { n \in NotificationIds :
                        /\ notifications[n].is_active
                        /\ notifications[n].recipient \in {out.user, NoUser} }
        /\ Len(out.result) = Cardinality(Listed)
        /\ \A i \in 1..Len(out.result) - 1 :
             notifications[out.result[i]].created_at >=
                 notifications[out.result[i + 1]].created_at

\* C19 witness: a user's list shows a notification of their own before an
\* older one for everyone, while an inactive notification and an active one
\* for somebody else exist
C19_Witness ==
    /\ out.op = "notifications_list" /\ Len(out.result) = 2
    /\ notifications[out.result[1]].recipient = out.user
    /\ notifications[out.result[2]].recipient = NoUser
    /\ notifications[out.result[1]].created_at > notifications[out.result[2]].created_at
    /\ \E n \in NotificationIds : ~notifications[n].is_active
    /\ \E n \in NotificationIds :
         notifications[n].is_active /\ notifications[n].recipient \notin {out.user, NoUser}

----------------------------------------------------------------------------
(* Properties of favorites *)

IsFavorite(u, l) == FavoritesOf(u, l) # {}

C20_AtMostOneRow ==
    \A u \in Users, l \in ListingIds : Cardinality(FavoritesOf(u, l)) <= 1

\* The last two requests were toggles of one user on one listing, both
\* answered with the redirect (the listing was published both times), the
\* second started right after the answer to the first
C20_TwoConsecutive ==
    /\ out.op = "favorite_toggle" /\ out.pc = "done" /\ out.code = 302
    /\ out.prev # <<>>
    /\ out.prev[1].user = out.user /\ out.prev[1].listing = out.listing
    /\ out.prev[1].code = 302

\* C20: there is never more than one Favorite row for a (user, listing)
\* pair, and after two consecutive toggles of one user on one published
\* listing the pair is a favorite exactly if it was one before the first of
\* them: a pair that was no favorite has no row.
C20_ToggleTwiceRestores ==
    /\ C20_AtMostOneRow
    /\ C20_TwoConsecutive => (IsFavorite(out.user, out.listing) <=> out.prev[1].was)

\* C20 witness: the first toggle inserted a row, the second deleted it
C20_Witness ==
    /\ C20_TwoConsecutive
    /\ ~out.prev[1].was
    /\ out.fav \in 1..Len(favorites) /\ favorites[out.fav].deleted
    /\ ~IsFavorite(out.user, out.listing)

----------------------------------------------------------------------------
(* Further properties of report moderation *)

\* C21: an admin save of a report whose persisted status is not pending, and
\* which saves that same status, leaves the report's reviewed_by and
\* reviewed_at as they were, whoever the moderator is.
C21_QuietSaveStep ==
    (AdminStep /\ out'.body = "saved" /\ out'.report \in DOMAIN reports) =>
        LET before == reports[out'.report]
            after == reports'[out'.report]
        IN  (before.moderation_status # MODERATION_PENDING
                /\ after.moderation_status = before.moderation_status) =>
                    /\ after.reviewed_by = before.reviewed_by
                    /\ after.reviewed_at = before.reviewed_at

C21_ReviewerKeptOnQuietSave == [][C21_QuietSaveStep]_vars

----------------------------------------------------------------------------
(* Properties of the parties of a thread *)

Parties(t) == {t.landlord, t.tenant}

C22_PartiesState ==
    /\ \A t \in 1..Len(threads') : threads'[t].landlord # threads'[t].tenant
    /\ \A m \in 1..Len(chatMessages') :
        LET msg == chatMessages'[m] IN
        /\ msg.sender # msg.recipient
        /\ {msg.sender, msg.recipient} = Parties(threads'[msg.thread])

C22_InsertStep(p) ==
    (Actor(p) /\ Inserted = 1) =>
        LET msg == chatMessages'[Len(chatMessages')]
            t == threads[msg.thread]
        IN  /\ req[p].op \in {"send_message", "chat_detail"}
            /\ req[p].op = "send_message" =>
                msg.sender = t.tenant /\ msg.recipient = t.landlord
            /\ req[p].op = "chat_detail" =>
                /\ msg.sender = req[p].user
                /\ msg.recipient \in Parties(t) \ {req[p].user}

----------------------------------------------------------------------------
(* Properties of the per-IP attempt counter *)

PassesInARow(ip) == Lookup(passRun, ip, [n |-> 0]).n

\* A POST that gets past the per-IP check is counted, whatever comes of it
C23_CountedStep ==
    (LoginStep /\ out'.body # "ip") =>
        AttemptCounter(cache', out'.ip) =
            <<[val |-> CacheGet(cache, _window_key(out'.ip), 0) + 1,
               ttl |-> LOGIN_WINDOW_SECONDS]>>

\* After five in a row the next one within the window is refused
C23_SixthStep ==
    \A ip \in IPs :
        (LoginStep /\ out'.ip = ip /\ PassesInARow(ip) >= LOGIN_MAX_ATTEMPTS_PER_IP) =>
            out'.code = 429 /\ out'.user = NoUser

\* C23: every login POST that gets past the per-IP check adds one to the
\* IP's attempt counter and renews its 60 s, whether it logs in, fails or
\* meets a lock; a successful login does not reset the counter; when 5 POSTs
\* of an IP got past, each less than 60 s after the one before, a POST of
\* that IP less than 60 s after the fifth is answered 429 and logs nobody in,
\* correct credentials or not.
C23_CounterCountsEveryPass ==
    /\ [](\A ip \in IPs : PassesInARow(ip) = CacheGet(cache, _window_key(ip), 0))
    /\ [][C23_CountedStep /\ C23_SixthStep]_vars

\* C23 witness: five POSTs got past over more than a window, each half a
\* window after the one before, so that only the last is of the last 60 s;
\* the POST just answered, with correct credentials, half a window after the
\* fifth, got 429; no failure is on record
C23_Witness ==
    /\ out.op = "login" /\ out.code = 429 /\ out.valid /\ out.body = "ip"
    /\ PassesInARow(out.ip) = LOGIN_MAX_ATTEMPTS_PER_IP
    /\ passRun[out.ip].age = LOGIN_WINDOW_SECONDS \div 2
    /\ PassesInWindow(out.ip) = 1
    /\ ProtectionKeys(cache) = {}

----------------------------------------------------------------------------
(* Properties of moderation and the blocked status *)

C24_ReportSaveStep ==
    AdminStep =>
        \A l \in DOMAIN listings :
            listings'[l].status # listings[l].status =>
                /\ listings'[l].status = STATUS_BLOCKED
                /\ out'.status = MODERATION_APPROVED
                /\ reports'[out'.report].listing = l

C24_UnblockStep ==
    \A l \in DOMAIN listings :
        (listings[l].status = STATUS_BLOCKED /\ listings'[l].status # STATUS_BLOCKED) =>
            out'.op = "listing_admin_save"

\* C24: an admin save of a report changes a listing's status only to
\* blocked, by an approval of a report on that listing: a blocked listing
\* stays blocked through every later save of a report (as rejected,
\* in_review or pending too), and through the owner's edits, until staff
\* save the listing itself in the admin site.
C24_ModerationNeverUnblocks == [][C24_ReportSaveStep /\ C24_UnblockStep]_vars

\* C24 witness: the approved report of a listing has been saved as rejected,
\* and the listing is still blocked
C24_Witness ==
    /\ out.op = "admin_save" /\ out.body = "saved"
    /\ out.previous = MODERATION_APPROVED /\ out.status = MODERATION_REJECTED
    /\ listings[reports[out.report].listing].status = STATUS_BLOCKED
    /\ \E n \in NotificationIds : notifications[n].title = TITLE_BLOCKED
====
